---------------------------- MODULE Spec2Model ----------------------------
(***************************************************************************)
(* The crossword constraint solver of 3-optimization/crossword/generate.py *)
(* (class CrosswordCreator): node consistency, AC-3 and backtracking       *)
(* search, modelled as a state machine.                                    *)
(*                                                                         *)
(* Words are sequences of letters.  Offsets into words are 0-based, as in  *)
(* the Python source; At(word, k) reads the letter at offset k.            *)
(***************************************************************************)
EXTENDS Integers, Sequences, FiniteSets, TLC

\* ------------------------------------------------------------------ bounds
\* Largest word list drawn in Init.
MaxWords == 3
\* How many times a client may call enforce_node_consistency (SpecNode).
MaxRuns == 2

\* ------------------------------------------------------------------ inputs
Letters == {"a", "b"}
WordLengths == {2, 3}
\* Every word over Letters of a length in WordLengths.
WordUniverse == UNION {[1..n -> Letters] : n \in WordLengths}
WordLists == {ws \in SUBSET WordUniverse : Cardinality(ws) <= MaxWords}
\* The words the termination check draws its word lists from.
LiveWordUniverse ==
    {<<"a", "b">>, <<"b", "a">>,
     <<"a", "a", "a">>, <<"a", "b", "a">>, <<"a", "b", "b">>,
     <<"b", "a", "a">>, <<"b", "b", "b">>}
LiveWordLists ==
    {ws \in SUBSET LiveWordUniverse : Cardinality(ws) <= MaxWords}

\* Grid structures: height, width and the set of open cells <<row, column>>.
\* One ACROSS slot of length 3.
StructSingle == [height |-> 1, width |-> 3,
                 open |-> {<<0, 0>>, <<0, 1>>, <<0, 2>>}]
\* ACROSS and DOWN of length 3 crossing at ACROSS offset 1 / DOWN offset 0.
StructCross == [height |-> 3, width |-> 3,
                open |-> {<<0, 0>>, <<0, 1>>, <<0, 2>>, <<1, 1>>, <<2, 1>>}]
\* Two ACROSS slots of length 3 that share no cell.
StructApart == [height |-> 3, width |-> 3,
                open |-> {<<0, 0>>, <<0, 1>>, <<0, 2>>,
                          <<2, 0>>, <<2, 1>>, <<2, 2>>}]
\* A chain ACROSS(3) - DOWN(3) - ACROSS(2).
StructChain == [height |-> 3, width |-> 4,
                open |-> {<<0, 0>>, <<0, 1>>, <<0, 2>>, <<1, 2>>,
                          <<2, 2>>, <<2, 3>>}]
\* A chain ACROSS(3) - DOWN(3) - ACROSS(3).
StructZed == [height |-> 3, width |-> 5,
              open |-> {<<0, 0>>, <<0, 1>>, <<0, 2>>, <<1, 2>>,
                        <<2, 2>>, <<2, 3>>, <<2, 4>>}]
Structures == {StructSingle, StructCross, StructApart, StructChain, StructZed}

\* ------------------------------------------------------- generic helpers
At(word, k) == word[k + 1]

\* All orders in which the elements of S can be iterated.
Perms(S) ==
    {f \in [1..Cardinality(S) -> S] : \A s \in S : \E i \in DOMAIN f : f[i] = s}

\* One fixed iteration order of S.
RECURSIVE SetToSeq(_)
SetToSeq(S) ==
    IF S = {} THEN <<>>
    ELSE LET s == CHOOSE t \in S : TRUE IN <<s>> \o SetToSeq(S \ {s})

\* ------------------------------------------------------------- grid model
ACROSS == "across"
DOWN == "down"

\* The cells a slot covers, in order of offset.
Cells(v) ==
    [k \in 1..v.length |->
        <<v.i + (IF v.direction = DOWN THEN k - 1 ELSE 0),
          v.j + (IF v.direction = ACROSS THEN k - 1 ELSE 0)>>]

\* Maximal runs of at least two consecutive open cells, per row and column.
CrosswordVariables(s) ==
    LET IsOpen(i, j) == <<i, j>> \in s.open
        Rows == 0..(s.height - 1)
        Cols == 0..(s.width - 1)
        across == {[i |-> i, j |-> j, direction |-> ACROSS, length |-> n] :
                     i \in Rows, j \in Cols, n \in 2..s.width}
        down == {[i |-> i, j |-> j, direction |-> DOWN, length |-> n] :
                     i \in Rows, j \in Cols, n \in 2..s.height}
    IN  {v \in across :
            /\ \A k \in 1..v.length : IsOpen(v.i, v.j + k - 1)
            /\ ~IsOpen(v.i, v.j - 1)
            /\ ~IsOpen(v.i, v.j + v.length)}
        \cup
        {v \in down :
            /\ \A k \in 1..v.length : IsOpen(v.i + k - 1, v.j)
            /\ ~IsOpen(v.i - 1, v.j)
            /\ ~IsOpen(v.i + v.length, v.j)}

\* The overlap of two slots: <<>> (None) when they share no cell, else
\* <<a, b>>, the 0-based offsets of the shared cell into x and into y.
NoOverlap == <<>>
CrosswordOverlap(x, y) ==
    LET cx == Cells(x)
        cy == Cells(y)
        shared == {p \in (DOMAIN cx) \X (DOMAIN cy) : cx[p[1]] = cy[p[2]]}
    IN  IF x = y \/ shared = {} THEN NoOverlap
        ELSE LET p == CHOOSE q \in shared : TRUE IN <<p[1] - 1, p[2] - 1>>

\* The overlaps table of a set of slots, keyed by ordered pairs of slots.
CrosswordOverlaps(variables) ==
    [p \in variables \X variables |-> CrosswordOverlap(p[1], p[2])]

\* ------------------------------------------------------------------ state
VARIABLES
    crossword,     \* self.crossword: [structure, variables, overlaps, words]
    domains,       \* self.domains: slot -> set of words
    pc,            \* position of the caller: "solve", "ac3_call", "ac3",
                   \* "backtrack_call", "backtrack", "done", "raised"
    err,           \* the exception raised, "none" when none
    ncRuns,        \* completed or raised calls of enforce_node_consistency
    domAfterNode,  \* self.domains when enforce_node_consistency first returned
    queue,         \* ac3's local work list of arcs <<x, y>>
    ac3Result,     \* what ac3 returned: "pending", "True" or "False"
    domAfterAc3,   \* self.domains when ac3 returned
    stack,         \* the frames of backtrack, outermost first
    ret,           \* the value the last finished call of backtrack returned
    calls,         \* number of invocations of backtrack so far
    result         \* what solve returned

vars == <<crossword, domains, pc, err, ncRuns, domAfterNode, queue, ac3Result,
          domAfterAc3, stack, ret, calls, result>>

\* Python values of backtrack: None, or a dict (an assignment).
EmptyAssignment == [v \in {} |-> <<>>]
Pending == [kind |-> "pending", assignment |-> EmptyAssignment]
None == [kind |-> "None", assignment |-> EmptyAssignment]
Dict(a) == [kind |-> "dict", assignment |-> a]
\* Python truthiness of such a value: None and the empty dict are falsy.
Truthy(r) == r.kind = "dict" /\ DOMAIN r.assignment # {}

\* self.crossword.overlaps[x, y]
Overlaps(x, y) == crossword.overlaps[<<x, y>>]

\* Crossword.neighbors: the other slots sharing a cell with var (a new set
\* on every call).
Neighbors(var) ==
    {v \in crossword.variables : v # var /\ Overlaps(v, var) # NoOverlap}

\* CrosswordCreator.__init__: every slot starts with a copy of the word list,
\* the crossword being one of Structures with a word list of lists.
InitFrom(lists) ==
    /\ \E s \in Structures, ws \in lists :
          /\ crossword = [structure |-> s,
                          variables |-> CrosswordVariables(s),
                          overlaps |-> CrosswordOverlaps(CrosswordVariables(s)),
                          words |-> ws]
          /\ domains = [v \in CrosswordVariables(s) |-> ws]
    /\ pc = "solve"
    /\ err = "none"
    /\ ncRuns = 0
    /\ domAfterNode = domains
    /\ queue = <<>>
    /\ ac3Result = "pending"
    /\ domAfterAc3 = domains
    /\ stack = <<>>
    /\ ret = Pending
    /\ calls = 0
    /\ result = Pending

Init == InitFrom(WordLists)

\* -------------------------------------------------------- node consistency
\* The nested loops of enforce_node_consistency over the pairs (variable,
\* word) still to visit.  set.remove raises KeyError on an absent element.
RECURSIVE NodeLoop(_, _)
NodeLoop(doms, pairs) ==
    IF pairs = <<>> THEN [domains |-> doms, err |-> "none"]
    ELSE LET variable == Head(pairs)[1]
             word == Head(pairs)[2]
         IN  IF Len(word) # variable.length
             THEN IF word \in doms[variable]
                  THEN NodeLoop([doms EXCEPT ![variable] = @ \ {word}],
                                Tail(pairs))
                  ELSE [domains |-> doms, err |-> "KeyError"]
             ELSE NodeLoop(doms, Tail(pairs))

\* The pairs in the order the loops visit them, for iteration orders pv of
\* crossword.variables and pw of crossword.words.
NodePairs(pv, pw) ==
    [k \in 1..(Len(pv) * Len(pw)) |->
        <<pv[((k - 1) \div Len(pw)) + 1], pw[((k - 1) % Len(pw)) + 1]>>]

\* One call of enforce_node_consistency on the current domains.
EnforceNodeConsistency(pv, pw) == NodeLoop(domains, NodePairs(pv, pw))

SearchUnchanged ==
    UNCHANGED <<queue, ac3Result, domAfterAc3, stack, ret, calls, result>>

\* solve, line 92: self.enforce_node_consistency()
SolveNodeConsistency ==
    /\ pc = "solve"
    /\ \E pv \in Perms(crossword.variables), pw \in Perms(crossword.words) :
          LET r == EnforceNodeConsistency(pv, pw)
          IN  /\ domains' = r.domains
              /\ err' = r.err
              /\ pc' = IF r.err = "none" THEN "ac3_call" ELSE "raised"
              /\ domAfterNode' = r.domains
    /\ ncRuns' = 1
    /\ UNCHANGED crossword
    /\ SearchUnchanged

\* A client calling enforce_node_consistency again on the domains a first
\* call produced.
NodeConsistencyAgain ==
    /\ pc = "ac3_call"
    /\ ncRuns < MaxRuns
    /\ \E pv \in Perms(crossword.variables), pw \in Perms(crossword.words) :
          LET r == EnforceNodeConsistency(pv, pw)
          IN  /\ domains' = r.domains
              /\ err' = r.err
              /\ pc' = IF r.err = "none" THEN "ac3_call" ELSE "raised"
    /\ ncRuns' = ncRuns + 1
    /\ UNCHANGED <<crossword, domAfterNode>>
    /\ SearchUnchanged

NextNode == SolveNodeConsistency \/ NodeConsistencyAgain
SpecNode == Init /\ [][NextNode]_vars

\* ------------------------------------------------------------------- AC-3
\* Mutant of Revise: keeps a word of x only when every other word of y
\* agrees with it at the overlap.
ReviseNeedsAllSupport(doms, x, y) ==
    LET overlap == Overlaps(x, y)
        remove == IF overlap = NoOverlap THEN {}
                  ELSE {x_domain \in doms[x] :
                           \E y_domain \in doms[y] :
                               /\ x_domain # y_domain
                               /\ At(x_domain, overlap[1])
                                      # At(y_domain, overlap[2])}
    IN  [domains |-> [doms EXCEPT ![x] = @ \ remove], revised |-> remove # {}]

\* revise(x, y): the domains after it, and whether it removed anything.
Revise(doms, x, y) ==
    LET overlap == Overlaps(x, y)
    IN  IF overlap # NoOverlap
        THEN LET a == overlap[1]
                 b == overlap[2]
                 domains_to_remove ==
                     {x_domain \in doms[x] :
                         ~\E y_domain \in doms[y] :
                             /\ x_domain # y_domain
                             /\ At(x_domain, a) = At(y_domain, b)}
             IN  IF domains_to_remove # {}
                 THEN [domains |-> [doms EXCEPT ![x] = @ \ domains_to_remove],
                       revised |-> TRUE]
                 ELSE [domains |-> doms, revised |-> FALSE]
        ELSE [domains |-> doms, revised |-> FALSE]

\* Mutant of Requeue: nothing is enqueued again.
RequeueNothing(x, y, zs) == <<>>

\* Mutant of Requeue: enqueues (x, z) in place of (z, x).
RequeueReversed(x, y, zs) == [k \in 1..Len(zs) |-> <<x, zs[k]>>]

\* The arcs ac3 appends after revise(x, y) shrank x's domain, zs being the
\* order in which neighbors(x) - {y} is iterated.
Requeue(x, y, zs) == [k \in 1..Len(zs) |-> <<zs[k], x>>]

\* Mutant of Ac3Iteration: the arc is read from the queue but not removed.
Ac3IterationPeeks(q, doms, zs) ==
    LET x == Head(q)[1]
        y == Head(q)[2]
        r == Revise(doms, x, y)
    IN  IF r.revised
        THEN IF Cardinality(r.domains[x]) = 0
             THEN [queue |-> <<>>, domains |-> r.domains, result |-> "False"]
             ELSE [queue |-> q \o Requeue(x, y, zs),
                   domains |-> r.domains, result |-> "pending"]
        ELSE [queue |-> q, domains |-> doms, result |-> "pending"]

\* One iteration of ac3's while loop on a non-empty queue.
Ac3Iteration(q, doms, zs) ==
    LET x == Head(q)[1]
        y == Head(q)[2]
        r == Revise(doms, x, y)
    IN  IF r.revised
        THEN IF Cardinality(r.domains[x]) = 0
             THEN [queue |-> <<>>, domains |-> r.domains, result |-> "False"]
             ELSE [queue |-> Tail(q) \o Requeue(x, y, zs),
                   domains |-> r.domains, result |-> "pending"]
        ELSE [queue |-> Tail(q), domains |-> doms, result |-> "pending"]

\* Every arc of the problem: the ordered pairs of neighbouring slots.
Arcs == {<<v1, v2>> \in crossword.variables \X crossword.variables :
            v2 \in Neighbors(v1)}

\* The initial queue ac3 builds when arcs is None, for an iteration order pv
\* of crossword.variables and orders pn[v] of neighbors(v).
RECURSIVE AllArcsQueue(_, _)
AllArcsQueue(pv, pn) ==
    IF pv = <<>> THEN <<>>
    ELSE [k \in 1..Len(pn[Head(pv)]) |-> <<Head(pv), pn[Head(pv)][k]>>]
         \o AllArcsQueue(Tail(pv), pn)

NeighborOrders ==
    {pn \in [crossword.variables ->
                UNION {Perms(Neighbors(v)) : v \in crossword.variables}] :
        \A v \in crossword.variables : pn[v] \in Perms(Neighbors(v))}

BacktrackUnchanged == UNCHANGED <<stack, ret, calls, result>>

\* solve, line 93: self.ac3(), up to the while loop.
SolveAc3Call ==
    /\ pc = "ac3_call"
    /\ ncRuns = 1
    /\ \E pv \in Perms(crossword.variables), pn \in NeighborOrders :
          queue' = AllArcsQueue(pv, pn)
    /\ pc' = "ac3"
    /\ UNCHANGED <<crossword, domains, err, ncRuns, domAfterNode, ac3Result,
                   domAfterAc3>>
    /\ BacktrackUnchanged

\* A client calling ac3(arcs) with an explicit list holding every arc once.
Ac3CallExplicit ==
    /\ pc = "ac3_call"
    /\ ncRuns = 1
    /\ \E arcs \in Perms(Arcs) : queue' = arcs
    /\ pc' = "ac3"
    /\ UNCHANGED <<crossword, domains, err, ncRuns, domAfterNode, ac3Result,
                   domAfterAc3>>
    /\ BacktrackUnchanged

\* ac3, lines 152-160: one iteration of the loop, returning False when the
\* revised domain is empty.
Ac3Loop ==
    /\ pc = "ac3"
    /\ queue # <<>>
    /\ \E zs \in Perms(Neighbors(Head(queue)[1]) \ {Head(queue)[2]}) :
          LET r == Ac3Iteration(queue, domains, zs)
          IN  /\ queue' = r.queue
              /\ domains' = r.domains
              /\ ac3Result' = r.result
              /\ pc' = IF r.result = "False" THEN "backtrack_call" ELSE "ac3"
              /\ domAfterAc3' = r.domains
    /\ UNCHANGED <<crossword, err, ncRuns, domAfterNode>>
    /\ BacktrackUnchanged

\* ac3, line 162: the queue is empty, return True.
Ac3ReturnTrue ==
    /\ pc = "ac3"
    /\ queue = <<>>
    /\ ac3Result' = "True"
    /\ pc' = "backtrack_call"
    /\ domAfterAc3' = domains
    /\ UNCHANGED <<crossword, domains, err, ncRuns, domAfterNode, queue>>
    /\ BacktrackUnchanged

\* ac3 run to its return from queue q on domains doms, the sets it iterates
\* taken in one fixed order.
RECURSIVE Ac3Run(_, _)
Ac3Run(q, doms) ==
    IF q = <<>> THEN [domains |-> doms, result |-> "True"]
    ELSE LET r == Ac3Iteration(q, doms,
                    SetToSeq(Neighbors(Head(q)[1]) \ {Head(q)[2]}))
         IN  IF r.result = "False"
             THEN [domains |-> r.domains, result |-> "False"]
             ELSE Ac3Run(r.queue, r.domains)

NextArcs == SolveNodeConsistency \/ Ac3CallExplicit \/ Ac3Loop \/ Ac3ReturnTrue
SpecArcs == Init /\ [][NextArcs]_vars

\* ------------------------------------------------------- backtracking search
\* assignment_complete: every slot has a value, and the value is a word.
AssignmentComplete(assignment) ==
    \A variable \in crossword.variables :
        /\ variable \in DOMAIN assignment
        /\ assignment[variable] \in crossword.words

\* Mutant of Consistent: a word may be used by two slots.
ConsistentAllowsReuse(assignment) ==
    \A x \in DOMAIN assignment :
        /\ x.length = Len(assignment[x])
        /\ \A y \in DOMAIN assignment :
              (x # y /\ Overlaps(x, y) # NoOverlap) =>
                 At(assignment[x], Overlaps(x, y)[1])
                     = At(assignment[y], Overlaps(x, y)[2])

\* Mutant of Consistent: the letters at an overlap are not compared.
ConsistentIgnoresOverlap(assignment) ==
    \A x \in DOMAIN assignment :
        /\ x.length = Len(assignment[x])
        /\ \A y \in DOMAIN assignment :
              x # y => assignment[x] # assignment[y]

\* consistent: lengths fit, no word is used twice, overlapping letters agree.
Consistent(assignment) ==
    \A x \in DOMAIN assignment :
        /\ x.length = Len(assignment[x])
        /\ \A y \in DOMAIN assignment :
              x # y =>
                 /\ assignment[x] # assignment[y]
                 /\ LET overlap == Overlaps(x, y)
                    IN  overlap # NoOverlap =>
                           At(assignment[x], overlap[1])
                               = At(assignment[y], overlap[2])

\* order_domain_values: how many values of the unassigned neighbours' domains
\* differ from val at the shared cell.
TotalRuledOut(var, val, assignment, doms) ==
    LET neighbors == Neighbors(var) \ DOMAIN assignment
        ruled == {p \in neighbors \X WordUniverse :
                     /\ p[2] \in doms[p[1]]
                     /\ Overlaps(var, p[1]) # NoOverlap
                     /\ At(val, Overlaps(var, p[1])[1])
                            # At(p[2], Overlaps(var, p[1])[2])}
    IN  Cardinality(ruled)

\* Mutant of OrderDomainValues: the first value of the sorted list is lost.
OrderDomainValuesDropsFirst(var, assignment, doms) ==
    {SubSeq(vs, 2, Len(vs)) : vs \in
        {ws \in Perms(doms[var]) :
            \A i, j \in DOMAIN ws :
                i < j => TotalRuledOut(var, ws[i], assignment, doms)
                            <= TotalRuledOut(var, ws[j], assignment, doms)}}

\* Mutant of OrderDomainValues: the list is sorted by decreasing count.
OrderDomainValuesDescending(var, assignment, doms) ==
    {vs \in Perms(doms[var]) :
        \A i, j \in DOMAIN vs :
            i < j => TotalRuledOut(var, vs[i], assignment, doms)
                        >= TotalRuledOut(var, vs[j], assignment, doms)}

\* order_domain_values: the lists it can return.  The sort is stable, so
\* values with equal counts keep the order in which the domain was iterated.
OrderDomainValues(var, assignment, doms) ==
    {vs \in Perms(doms[var]) :
        \A i, j \in DOMAIN vs :
            i < j => TotalRuledOut(var, vs[i], assignment, doms)
                        <= TotalRuledOut(var, vs[j], assignment, doms)}

\* Mutant of SelectUnassignedVariable: any unassigned slot, whatever the size
\* of its domain.
SelectAnyUnassigned(assignment, doms) == crossword.variables \ DOMAIN assignment

\* Mutant of SelectUnassignedVariable: ties on the domain size go to the
\* slot of lowest degree.
SelectLowestDegree(assignment, doms) ==
    LET unassigned == crossword.variables \ DOMAIN assignment
        Before(u, v) ==
            \/ Cardinality(doms[u]) < Cardinality(doms[v])
            \/ /\ Cardinality(doms[u]) = Cardinality(doms[v])
               /\ Cardinality(Neighbors(u)) < Cardinality(Neighbors(v))
    IN  {var \in unassigned : \A v \in unassigned : ~Before(v, var)}

\* select_unassigned_variable: the slots it can return.  The list is sorted
\* by (domain size, -degree); the first of equal keys is the one the
\* iteration of crossword.variables met first.
SelectUnassignedVariable(assignment, doms) ==
    LET unassigned == crossword.variables \ DOMAIN assignment
        Before(u, v) ==
            \/ Cardinality(doms[u]) < Cardinality(doms[v])
            \/ /\ Cardinality(doms[u]) = Cardinality(doms[v])
               /\ Cardinality(Neighbors(u)) > Cardinality(Neighbors(v))
    IN  {var \in unassigned : \A v \in unassigned : ~Before(v, var)}

\* backtrack, lines 261-262: a copy of the assignment with var set to val.
NewAssignment(assignment, var, val) ==
    [v \in DOMAIN assignment \cup {var} |->
        IF v = var THEN val ELSE assignment[v]]

\* The slot of a frame that has not selected one yet.
NoVar == [i |-> -1, j |-> -1, direction |-> "none", length |-> 0]
\* The frame of a call backtrack(assignment) that has just been entered.
Frame(assignment) ==
    [assignment |-> assignment, var |-> NoVar, values |-> <<>>, at |-> "enter"]

Top == stack[Len(stack)]
SetTop(frame) == [stack EXCEPT ![Len(stack)] = frame]
Pop == SubSeq(stack, 1, Len(stack) - 1)

Ac3Unchanged ==
    UNCHANGED <<crossword, domains, err, ncRuns, domAfterNode, queue,
                ac3Result, domAfterAc3>>

\* solve, line 94: call self.backtrack(dict()).
SolveBacktrackCall ==
    /\ pc = "backtrack_call"
    /\ stack' = <<Frame(EmptyAssignment)>>
    /\ calls' = calls + 1
    /\ pc' = "backtrack"
    /\ UNCHANGED <<ret, result>>
    /\ Ac3Unchanged

\* backtrack, lines 257-260: return a complete assignment, or else select
\* the slot and order its values.
BacktrackEnter ==
    /\ pc = "backtrack"
    /\ stack # <<>>
    /\ Top.at = "enter"
    /\ IF AssignmentComplete(Top.assignment)
       THEN /\ ret' = Dict(Top.assignment)
            /\ stack' = Pop
       ELSE /\ \E var \in SelectUnassignedVariable(Top.assignment, domains) :
               \E values \in OrderDomainValues(var, Top.assignment, domains) :
                  stack' = SetTop([Top EXCEPT !.var = var,
                                              !.values = values,
                                              !.at = "loop"])
            /\ ret' = ret
    /\ UNCHANGED <<pc, calls, result>>
    /\ Ac3Unchanged

\* Mutant of BacktrackTry: trying a value narrows the slot's domain to it
\* and the domain is never restored.
BacktrackTryPruning ==
    /\ pc = "backtrack"
    /\ stack # <<>>
    /\ Top.at = "loop"
    /\ Top.values # <<>>
    /\ LET val == Head(Top.values)
           new_assigment == NewAssignment(Top.assignment, Top.var, val)
       IN  /\ domains' = [domains EXCEPT ![Top.var] = {val}]
           /\ IF Consistent(new_assigment)
              THEN /\ stack' = Append(SetTop([Top EXCEPT !.values = Tail(@),
                                                         !.at = "await"]),
                                      Frame(new_assigment))
                   /\ calls' = calls + 1
                   /\ ret' = Pending
              ELSE /\ stack' = SetTop([Top EXCEPT !.values = Tail(@)])
                   /\ UNCHANGED <<calls, ret>>
    /\ UNCHANGED <<pc, result>>
    /\ UNCHANGED <<crossword, err, ncRuns, domAfterNode, queue, ac3Result,
                   domAfterAc3>>

\* backtrack, lines 260-264: take the next value; recurse on the extended
\* copy when it is consistent, else go on with the loop.
BacktrackTry ==
    /\ pc = "backtrack"
    /\ stack # <<>>
    /\ Top.at = "loop"
    /\ Top.values # <<>>
    /\ LET val == Head(Top.values)
           new_assigment == NewAssignment(Top.assignment, Top.var, val)
       IN  IF Consistent(new_assigment)
           THEN /\ stack' = Append(SetTop([Top EXCEPT !.values = Tail(@),
                                                      !.at = "await"]),
                                   Frame(new_assigment))
                /\ calls' = calls + 1
                /\ ret' = Pending
           ELSE /\ stack' = SetTop([Top EXCEPT !.values = Tail(@)])
                /\ UNCHANGED <<calls, ret>>
    /\ UNCHANGED <<pc, result>>
    /\ Ac3Unchanged

\* backtrack, lines 264-266: the recursive call returned; return its result
\* when truthy, else go on with the loop.
BacktrackResume ==
    /\ pc = "backtrack"
    /\ stack # <<>>
    /\ Top.at = "await"
    /\ IF Truthy(ret)
       THEN /\ stack' = Pop
            /\ ret' = ret
       ELSE /\ stack' = SetTop([Top EXCEPT !.at = "loop"])
            /\ ret' = Pending
    /\ UNCHANGED <<pc, calls, result>>
    /\ Ac3Unchanged

\* backtrack, line 267: every value was tried, return None.
BacktrackReturnNone ==
    /\ pc = "backtrack"
    /\ stack # <<>>
    /\ Top.at = "loop"
    /\ Top.values = <<>>
    /\ stack' = Pop
    /\ ret' = None
    /\ UNCHANGED <<pc, calls, result>>
    /\ Ac3Unchanged

\* solve, line 94: return what backtrack returned.
SolveReturn ==
    /\ pc = "backtrack"
    /\ stack = <<>>
    /\ result' = ret
    /\ pc' = "done"
    /\ UNCHANGED <<stack, ret, calls>>
    /\ Ac3Unchanged

Next ==
    \/ SolveNodeConsistency
    \/ SolveAc3Call
    \/ Ac3Loop
    \/ Ac3ReturnTrue
    \/ SolveBacktrackCall
    \/ BacktrackEnter
    \/ BacktrackTry
    \/ BacktrackResume
    \/ BacktrackReturnNone
    \/ SolveReturn

Spec == Init /\ [][Next]_vars

\* solve as a running program: a single thread that always takes its next
\* step while it has one.
InitLive == InitFrom(LiveWordLists)
SpecLive == InitLive /\ [][Next]_vars /\ WF_vars(Next)

\* ================================================================ properties
\* A valid complete assignment: every slot holds a word of the word list of
\* the slot's length, overlapping slots agree on the shared cell, and no two
\* slots hold the same word.
IsValid(f) ==
    /\ DOMAIN f = crossword.variables
    /\ \A x \in crossword.variables :
          /\ f[x] \in crossword.words
          /\ Len(f[x]) = x.length
    /\ \A x, y \in crossword.variables :
          x # y =>
             /\ f[x] # f[y]
             /\ Overlaps(x, y) # NoOverlap =>
                   At(f[x], Overlaps(x, y)[1]) = At(f[y], Overlaps(x, y)[2])

\* Brute force: every valid complete assignment of the crossword.
ValidAssignments ==
    {f \in [crossword.variables -> crossword.words] : IsValid(f)}

\* A partial assignment that breaks no constraint among the slots it holds.
PartialValid(a) ==
    /\ DOMAIN a \subseteq crossword.variables
    /\ \A x \in DOMAIN a : Len(a[x]) = x.length
    /\ \A x, y \in DOMAIN a :
          x # y =>
             /\ a[x] # a[y]
             /\ Overlaps(x, y) # NoOverlap =>
                   At(a[x], Overlaps(x, y)[1]) = At(a[y], Overlaps(x, y)[2])

SomeDomainEmpty(doms) == \E v \in crossword.variables : doms[v] = {}

\* C1: an assignment returned by solve() gives every slot a word of its
\* length, agrees at every overlap, and uses no word twice, slots without an
\* overlap included.
SolveSound ==
    (pc = "done" /\ result.kind = "dict") => IsValid(result.assignment)

\* C1 witness: solve returned an assignment for a grid with two slots that do
\* not overlap.
SolveSoundWitness ==
    /\ pc = "done"
    /\ result.kind = "dict"
    /\ \E x, y \in crossword.variables : x # y /\ Overlaps(x, y) = NoOverlap

\* C2: when solve() returns None, brute force finds no valid complete
\* assignment.
SolveComplete ==
    (pc = "done" /\ result.kind = "None") => ValidAssignments = {}

\* C2 witness: solve returned None after ac3 succeeded and the search tried
\* at least one extension.
SolveCompleteWitness ==
    /\ pc = "done"
    /\ result.kind = "None"
    /\ ac3Result = "True"
    /\ calls >= 2

\* C3: a second run of enforce_node_consistency completes normally and
\* leaves every domain as the first run left it.
NodeConsistencyIdempotent ==
    ncRuns >= 2 => (err = "none" /\ domains = domAfterNode)

\* C4 as stated: whatever ac3 returns, the domains it leaves are those left
\* from any other ordering of the same initial arcs.
Ac3Confluent ==
    pc = "backtrack_call" =>
       domains = Ac3Run(SetToSeq(Arcs), domAfterNode).domains

\* C4 amended: for every ordering of the initial arcs ac3 returns the same
\* value, and when that value is True it leaves the same domains.
Ac3ConfluentWhenTrue ==
    pc = "backtrack_call" =>
       LET r == Ac3Run(SetToSeq(Arcs), domAfterNode)
       IN  /\ ac3Result = r.result
           /\ ac3Result = "True" => domains = r.domains

\* C4 witness: ac3 returned True on a grid with four arcs after pruning.
Ac3ConfluentWitness ==
    /\ pc = "backtrack_call"
    /\ ac3Result = "True"
    /\ Cardinality(Arcs) >= 4
    /\ domains # domAfterNode

\* C5: ac3 returns True exactly when no domain is empty at its return, a
\* domain empty from the start and a slot without neighbours included.
Ac3ResultTellsEmptiness ==
    pc = "backtrack_call" => (ac3Result = "True" <=> ~SomeDomainEmpty(domains))

\* C6 as stated: with a domain empty after node consistency, backtrack is
\* never invoked.
NodeEmptyNeverSearches ==
    (pc # "solve" /\ SomeDomainEmpty(domAfterNode)) => calls = 0

\* C6 amended: with a domain empty after node consistency, solve returns
\* None; backtrack is invoked once, on the empty assignment, and returns
\* None with no value to try, so no tentative assignment is built.
NodeEmptyFailsAtRoot ==
    (pc # "solve" /\ SomeDomainEmpty(domAfterNode)) =>
       /\ calls <= 1
       /\ Len(stack) <= 1
       /\ \A k \in DOMAIN stack :
             stack[k].assignment = EmptyAssignment /\ stack[k].values = <<>>
       /\ ret.kind # "dict"
       /\ pc = "done" => (result = None /\ calls = 1)

\* C6 witness: solve returned on a grid where node consistency emptied one
\* slot's domain and left another slot's domain non-empty.
NodeEmptyWitness ==
    /\ pc = "done"
    /\ SomeDomainEmpty(domAfterNode)
    /\ \E v \in crossword.variables : domAfterNode[v] # {}

\* C7: from the first call of backtrack until solve returns, every domain is
\* what it was when ac3 returned.
SearchKeepsDomains ==
    pc \in {"backtrack", "done"} => domains = domAfterAc3

\* C7 witness: the search is in a sibling branch, after an earlier branch
\* failed.
SearchKeepsDomainsWitness ==
    /\ pc = "backtrack"
    /\ Len(stack) >= 2
    /\ calls > Len(stack)

\* C8: every valid complete assignment keeps each slot's word in that
\* slot's domain, before and after every step of node consistency and ac3.
PruningJustified ==
    pc \notin {"backtrack", "done"} =>
       \A f \in ValidAssignments :
          \A v \in crossword.variables : f[v] \in domains[v]

\* C8 witness: a solvable crossword where both node consistency and ac3
\* removed words.
PruningJustifiedWitness ==
    /\ pc = "backtrack_call"
    /\ ValidAssignments # {}
    /\ \E v \in crossword.variables : domAfterNode[v] # crossword.words
    /\ domains # domAfterNode

\* C9: when ac3 started without explicit arcs returns True, every word left
\* in x's domain has a different word in y's domain agreeing at the overlap,
\* for every arc (x, y).
Ac3TrueArcConsistent ==
    (pc = "backtrack_call" /\ ac3Result = "True") =>
       \A arc \in Arcs :
          LET x == arc[1]
              y == arc[2]
              a == Overlaps(x, y)[1]
              b == Overlaps(x, y)[2]
          IN  \A w \in domains[x] :
                 \E v \in domains[y] : v # w /\ At(w, a) = At(v, b)

\* C9 witness: ac3 returned True on a chain of three slots after pruning,
\* with no domain empty.
Ac3TrueArcConsistentWitness ==
    /\ pc = "backtrack_call"
    /\ ac3Result = "True"
    /\ Cardinality(Arcs) >= 4
    /\ domains # domAfterNode
    /\ ~SomeDomainEmpty(domains)

\* C10: every assignment backtrack is invoked on breaks no constraint, each
\* call holds its caller's assignment plus one entry for the caller's slot,
\* and a return leaves the caller's assignment as it was.
FramesConsistent ==
    \A k \in DOMAIN stack :
       /\ PartialValid(stack[k].assignment)
       /\ Cardinality(DOMAIN stack[k].assignment) = k - 1
       /\ k > 1 =>
             /\ stack[k - 1].var \notin DOMAIN stack[k - 1].assignment
             /\ DOMAIN stack[k].assignment
                   = DOMAIN stack[k - 1].assignment \cup {stack[k - 1].var}
             /\ \A v \in DOMAIN stack[k - 1].assignment :
                   stack[k].assignment[v] = stack[k - 1].assignment[v]
ReturnKeepsCaller ==
    (Len(stack') < Len(stack) /\ stack' # <<>>) =>
       stack'[Len(stack')].assignment = stack[Len(stack')].assignment
SearchAssignmentsConsistent ==
    []FramesConsistent /\ [][ReturnKeepsCaller]_vars

\* C10 witness: a branch three calls deep failed and returned to its caller.
SearchAssignmentsWitness ==
    /\ pc = "backtrack"
    /\ Len(stack) = 2
    /\ Top.at = "await"
    /\ ret = None
    /\ Cardinality(crossword.variables) = 3

\* The slots backtrack has not assigned in frame k.
UnassignedIn(k) == crossword.variables \ DOMAIN stack[k].assignment
\* The unassigned slots of frame k with the fewest remaining values.
FewestValuesIn(k) ==
    {u \in UnassignedIn(k) :
        \A v \in UnassignedIn(k) :
            Cardinality(domains[u]) <= Cardinality(domains[v])}

\* C11: the slot select_unassigned_variable returned to a call of backtrack
\* is unassigned, has the fewest remaining values among the unassigned
\* slots, and has the most neighbours among those with that few values.
SelectionIsMrvThenDegree ==
    \A k \in DOMAIN stack :
       stack[k].at # "enter" =>
          /\ stack[k].var \in UnassignedIn(k)
          /\ stack[k].var \in FewestValuesIn(k)
          /\ \A u \in FewestValuesIn(k) :
                Cardinality(Neighbors(u)) <= Cardinality(Neighbors(stack[k].var))

\* C11 witness: a selection among slots with domains of different sizes,
\* where two slots of the smallest size differ in degree.
SelectionWitness ==
    /\ pc = "backtrack"
    /\ stack # <<>>
    /\ Top.at = "loop"
    /\ UnassignedIn(Len(stack)) # FewestValuesIn(Len(stack))
    /\ \E u, v \in FewestValuesIn(Len(stack)) :
          Cardinality(Neighbors(u)) < Cardinality(Neighbors(v))

\* The (neighbour, word) pairs val rules out: words in the domains of var's
\* neighbours outside assignment a whose letter at the shared cell differs.
RuledOutPairs(var, val, a) ==
    {p \in (Neighbors(var) \ DOMAIN a) \X crossword.words :
        /\ p[2] \in domains[p[1]]
        /\ At(val, Overlaps(var, p[1])[1]) # At(p[2], Overlaps(var, p[1])[2])}

\* A step in which a call of backtrack selects its slot and orders its
\* values.
OrdersValues ==
    /\ stack # <<>>
    /\ Top.at = "enter"
    /\ Len(stack') = Len(stack)
    /\ stack'[Len(stack)].at = "loop"

\* C12: the list order_domain_values returns holds every word of var's
\* domain exactly once, by non-decreasing count of the values ruled out in
\* the domains of var's unassigned neighbours.
ValuesOrderedStep ==
    OrdersValues =>
       LET f == stack'[Len(stack)]
           vs == f.values
       IN  /\ {vs[i] : i \in DOMAIN vs} = domains[f.var]
           /\ Len(vs) = Cardinality(domains[f.var])
           /\ \A i, j \in DOMAIN vs :
                 i < j =>
                    Cardinality(RuledOutPairs(f.var, vs[i], f.assignment))
                       <= Cardinality(RuledOutPairs(f.var, vs[j], f.assignment))
ValuesOrdered == [][ValuesOrderedStep]_vars

\* C12 witness: a freshly ordered list of several values with different
\* counts, for a slot with an unassigned neighbour.
ValuesOrderedWitness ==
    /\ pc = "backtrack"
    /\ stack # <<>>
    /\ Top.at = "loop"
    /\ Len(Top.values) = Cardinality(domains[Top.var])
    /\ Neighbors(Top.var) \ DOMAIN Top.assignment # {}
    /\ \E v, w \in domains[Top.var] :
          Cardinality(RuledOutPairs(Top.var, v, Top.assignment))
             < Cardinality(RuledOutPairs(Top.var, w, Top.assignment))

\* An iteration of ac3's loop either removes one arc and leaves the domains
\* alone, or strictly shrinks a domain.
Ac3StepPaid ==
    (pc = "ac3" /\ queue # <<>>) =>
       \/ domains' = domains /\ Len(queue') = Len(queue) - 1
       \/ /\ \A v \in crossword.variables : domains'[v] \subseteq domains[v]
          /\ \E v \in crossword.variables : domains'[v] # domains[v]

\* Every call of backtrack below the outermost one holds one more slot, so
\* at most one recursive call per slot is active.
DepthBounded == Len(stack) <= Cardinality(crossword.variables) + 1

\* C13: solve() returns; every iteration of ac3 that adds arcs to the queue
\* shrinks a domain; backtrack never recurses deeper than the number of
\* slots.
SolveTerminates ==
    /\ <>(pc = "done")
    /\ [][Ac3StepPaid]_vars
    /\ []DepthBounded

\* C13 witness: solve returned after ac3 pruned a chain of three slots
\* without emptying a domain and backtrack recursed and failed branches.
SolveTerminatesWitness ==
    /\ pc = "done"
    /\ ac3Result = "True"
    /\ domAfterAc3 # domAfterNode
    /\ Cardinality(crossword.variables) = 3
    /\ calls > Cardinality(crossword.variables) + 1

=============================================================================
